---------------------------- MODULE Spec2Model ----------------------------
(***************************************************************************)
(* A model of hrid.HRID (src/hrid/hrid.py): construction, the coprime      *)
(* selection and modular inverse behind the scrambling, and the three      *)
(* public operations encode, decode and generate.                          *)
(*                                                                         *)
(* Representation.                                                         *)
(*  - A Python str is a sequence of symbols.  A symbol is a one-character  *)
(*    string ("a", "-"), or a run of letters that holds no delimiter       *)
(*    character and is never cut ("noun").  str.join and str.split work    *)
(*    on these sequences symbol by symbol, as Python does on characters.   *)
(*  - Python integers are unbounded; the fixed multipliers of              *)
(*    _find_coprime do not fit TLC's 32-bit integers, so a                 *)
(*    multiplier is kept as two base-65536 limbs <<hi, lo>> (the value     *)
(*    hi * 65536 + lo).  Every use of a multiplier in the source reduces   *)
(*    it modulo space_size (math.gcd, (n * m) % size, a % m), which the    *)
(*    limbs compute exactly.                                               *)
(*  - random.Random(x) is a deterministic stream of raw outputs fixed by   *)
(*    x; random.Random(None) takes x from the operating system's entropy,  *)
(*    which differs from one construction to the next.                     *)
(*  - A call either returns, [raised |-> FALSE, val |-> v], or raises,     *)
(*    [raised |-> TRUE, exc |-> type, msg |-> text].                       *)
(*  - Two instances, h[1] and h[2], are built from the same constructor    *)
(*    arguments and receive the same calls.                                *)
(***************************************************************************)
EXTENDS Integers, Sequences, FiniteSets

VARIABLES
    params,     \* the constructor's arguments
    entropy,    \* entropy[i]: what the OS hands random.Random(None) in instance i
    phase,      \* "new" (before __init__), "ready" (constructed), "failed" (__init__ raised)
    h,          \* h[i]: the fields of instance i (None until constructed)
    last,       \* the last call: [op, arg, of]
    out         \* out[i]: what the last call returned or raised on instance i

vars == <<params, entropy, phase, h, last, out>>

None == "None"

Returns(v) == [raised |-> FALSE, val |-> v]

Raises(e, m) == [raised |-> TRUE, exc |-> e, msg |-> m]

(***************************************************************************)
(* Bounds of the model.                                                    *)
(***************************************************************************)
\* the longest `elements` argument
MaxElements == 2

\* how far past either end of [0, space_size) encode's argument is drawn
RangeMargin == 2

(***************************************************************************)
(* Python's str and list operations used by the source.                    *)
(***************************************************************************)
\* delimiter.join(words)
RECURSIVE Join(_, _)
Join(sep, words) ==
    IF words = <<>> THEN <<>>
    ELSE IF Len(words) = 1 THEN words[1]
    ELSE words[1] \o sep \o Join(sep, Tail(words))

\* the least index at which sep occurs in s, 0 when it does not
Find(s, sep) ==
    LET at == {i \in 1..(Len(s) - Len(sep) + 1) : SubSeq(s, i, i + Len(sep) - 1) = sep}
    IN  IF at = {} THEN 0 ELSE CHOOSE i \in at : \A j \in at : i <= j

\* s.split(sep) for a non-empty sep: cut at each occurrence, left to right
RECURSIVE SplitOn(_, _)
SplitOn(s, sep) ==
    LET i == Find(s, sep)
    IN  IF i = 0 THEN <<s>>
        ELSE <<SubSeq(s, 1, i - 1)>> \o SplitOn(SubSeq(s, i + Len(sep), Len(s)), sep)

\* s.split(sep): an empty separator is a ValueError
Split(s, sep) ==
    IF sep = <<>> THEN Raises("ValueError", "empty separator")
    ELSE Returns(SplitOn(s, sep))

\* words.index(part): the first position (from 0) holding part, else ValueError
Index(words, part) ==
    LET at == {i \in 1..Len(words) : words[i] = part}
    IN  IF at = {} THEN Raises("ValueError", "is not in list")
        ELSE Returns((CHOOSE i \in at : \A j \in at : i <= j) - 1)

\* math.prod(len(e) for e in elements)
RECURSIVE Prod(_)
Prod(elems) == IF elems = <<>> THEN 1 ELSE Len(elems[1]) * Prod(Tail(elems))

(***************************************************************************)
(* Arithmetic.                                                             *)
(***************************************************************************)
\* a small integer as limbs
Big(v) == <<0, v>>

\* x % n for limbs x and n >= 1
ModBig(x, n) == ((x[1] % n) * (65536 % n) + (x[2] % n)) % n

\* math.gcd on non-negative integers
RECURSIVE Gcd(_, _)
Gcd(a, b) == IF b = 0 THEN a ELSE Gcd(b, a % b)

\* math.gcd(c, n) == 1 for limbs c; gcd(c, 0) is c itself
IsCoprime(c, n) == IF n = 0 THEN c = Big(1) ELSE Gcd(ModBig(c, n), n) = 1

\* extended_gcd(a, b): <<gcd, x, y>> with a*x + b*y = gcd
RECURSIVE extended_gcd(_, _)
extended_gcd(a, b) ==
    IF a = 0 THEN <<b, 0, 1>>
    ELSE LET r == extended_gcd(b % a, a)
         IN  <<r[1], r[3] - (b \div a) * r[2], r[2]>>

\* _mod_inverse taking the other coefficient of extended_gcd
mod_inverse_other_coefficient(a, m) ==
    IF m = 0 THEN Raises("ZeroDivisionError", "integer modulo by zero")
    ELSE LET y == extended_gcd(ModBig(a, m), m)[3]
         IN  Returns(((y % m) + m) % m)

\* _mod_inverse(a, m); a % m with m = 0 is a ZeroDivisionError
mod_inverse(a, m) ==
    IF m = 0 THEN Raises("ZeroDivisionError", "integer modulo by zero")
    ELSE LET x == extended_gcd(ModBig(a, m), m)[2]
         IN  Returns(((x % m) + m) % m)

(***************************************************************************)
(* random.Random.                                                          *)
(***************************************************************************)
\* the seeds the caller may pass as `seed`, and the values the OS entropy takes
GenSeeds == {"seed7"}

Entropies == {"os0", "os1"}

\* the seeds the caller may pass as `scramble_seed`
ScrambleSeeds == {"alpha", "beta"}

\* the raw outputs of the generator seeded with x, repeating
Stream(x) ==
    CASE x = "seed7" -> <<1, 0, 2>>
      [] x = "os0"   -> <<0>>
      [] x = "os1"   -> <<2, 1>>
      [] x = "alpha" -> <<0>>
      [] x = "beta"  -> <<1, 3>>

\* random.Random() with the seed dropped: always seeded from the OS entropy
Random_unseeded(seed, os) == [stream |-> Stream(os), pos |-> 1]

\* random.Random(seed): seeded from the OS entropy when seed is None
Random(seed, os) == [stream |-> Stream(IF seed = None THEN os ELSE seed), pos |-> 1]

\* the raw output of the i-th draw from now (i >= 1)
RawAt(rng, i) == rng.stream[((rng.pos + i - 2) % Len(rng.stream)) + 1]

\* the generator after k draws
Advance(rng, k) == [rng EXCEPT !.pos = ((rng.pos - 1 + k) % Len(rng.stream)) + 1]

(***************************************************************************)
(* Word lists and element specifications.                                  *)
(***************************************************************************)
\* an element given as a string (a key of word_lists, or a literal word)
StrElement(word) == [str |-> TRUE, val |-> <<word>>]

\* an element given as a list of words
ListElement(words) == [str |-> FALSE, val |-> words]

\* HRID.DEFAULT_ELEMENTS
DEFAULT_ELEMENTS ==
    <<StrElement(<<"adjective">>), StrElement(<<"noun">>),
      StrElement(<<"verb">>), StrElement(<<"adverb">>)>>

\* hrid.word_lists.WORD_LISTS, cut down to a few words per category
DEFAULT_WORD_LISTS ==
    [k \in {<<"adjective">>, <<"noun">>, <<"verb">>, <<"adverb">>} |->
        CASE k = <<"adjective">> -> << <<"b", "i", "g">>, <<"o", "d", "d">> >>
          [] k = <<"noun">>      -> << <<"c", "a", "t">>, <<"d", "o", "g">>, <<"e", "e", "l">> >>
          [] k = <<"verb">>      -> << <<"r", "u", "n">> >>
          [] k = <<"adverb">>    -> << <<"f", "a", "r">> >>]

\* a caller's own word_lists: one category of three words, one with no word
CustomWordLists ==
    [k \in {<<"noun">>, <<"void">>} |->
        IF k = <<"noun">> THEN << <<"x">>, <<"y">>, <<"z">> >> ELSE <<>>]

\* the values of the word_lists argument: None, or a dict
WordListsArgs == {[kind |-> "none", map |-> <<>>], [kind |-> "dict", map |-> CustomWordLists]}

\* the element specifications a caller draws from
ElementPool ==
    { StrElement(<<"noun">>),
      StrElement(<<"void">>),
      ListElement(<< <<"a">>, <<"b">> >>),
      ListElement(<< <<"a">>, <<"a", "-", "a">> >>) }

\* the values of the elements argument: None, a list or tuple (falsy when
\* empty), or an exhausted iterator (an object, truthy, yielding nothing)
ElementsArgs ==
    {[kind |-> "none", items |-> <<>>], [kind |-> "iter", items |-> <<>>]}
    \cup {[kind |-> "list", items |-> s] :
            s \in UNION {[1..k -> ElementPool] : k \in 0..MaxElements}}

\* the values of the delimiter argument
Delimiters == {<<"-">>, <<>>}

\* bool(x) of an elements argument
Truthy(arg) == arg.kind = "iter" \/ (arg.kind = "list" /\ arg.items # <<>>)

\* HRID._transform_element
transform_element(word_lists, element) ==
    IF element.str
    THEN IF element.val[1] \in DOMAIN word_lists
         THEN word_lists[element.val[1]]
         ELSE <<element.val[1]>>
    ELSE element.val

(***************************************************************************)
(* HRID._find_coprime.                                                     *)
(***************************************************************************)
\* the draws the seeded search makes before it gives up
SeedBudget == 1000

\* the fixed multipliers: 2654435769, 1640531527, 2166136261, 16777619
Candidates == << <<40503, 31161>>, <<25032, 34375>>, <<33052, 40389>>, <<256, 403>> >>

\* rng.randint(n // 3, n - 1) at the i-th draw
SeededCandidate(rng, n, i) == (n \div 3) + (RawAt(rng, i) % (n - (n \div 3)))

\* the first of the SeedBudget draws whose candidate is coprime to n, 0 when
\* none is
FirstHit(rng, n) ==
    IF \E i \in 1..SeedBudget : Gcd(SeededCandidate(rng, n, i), n) = 1
    THEN CHOOSE i \in 1..SeedBudget :
            /\ Gcd(SeededCandidate(rng, n, i), n) = 1
            /\ \A j \in 1..(i - 1) : Gcd(SeededCandidate(rng, n, j), n) # 1
    ELSE 0

\* the seeded search returning its first draw without the gcd test
SeededSearch_unchecked(n, seed) ==
    IF n - 1 < n \div 3
    THEN Raises("ValueError", "empty range for randrange()")
    ELSE [raised |-> FALSE, found |-> TRUE,
          val |-> Big(SeededCandidate(Random(seed, seed), n, 1))]

\* the seeded search: the first coprime candidate among SeedBudget draws
\* (found), or none of them (not found); randint over an empty range
\* (n = 0) is a ValueError
SeededSearch(n, seed) ==
    LET rng == Random(seed, seed)
    IN  IF n - 1 < n \div 3
        THEN Raises("ValueError", "empty range for randrange()")
        ELSE IF FirstHit(rng, n) = 0
        THEN [raised |-> FALSE, found |-> FALSE, val |-> Big(0)]
        ELSE [raised |-> FALSE, found |-> TRUE,
              val |-> Big(SeededCandidate(rng, n, FirstHit(rng, n)))]

\* the first fixed multiplier taken without the gcd test
FirstCandidate_unchecked(n) == 1

\* the position of the first fixed multiplier coprime to n, 0 when there is none
FirstCandidate(n) ==
    LET ok == {i \in 1..Len(Candidates) : IsCoprime(Candidates[i], n)}
    IN  IF ok = {} THEN 0 ELSE CHOOSE i \in ok : \A j \in ok : i <= j

\* the fallback: the first c in range(n // 2, n) coprime to n, else 1
FallbackScan(n) ==
    LET ok == {c \in (n \div 2)..(n - 1) : Gcd(c, n) = 1}
    IN  IF ok = {} THEN Big(1) ELSE Big(CHOOSE c \in ok : \A d \in ok : c <= d)

\* _find_coprime past the seeded search
UnseededCoprime(n) ==
    IF FirstCandidate(n) # 0 THEN Candidates[FirstCandidate(n)] ELSE FallbackScan(n)

\* _find_coprime answering 1 for n = 1 before anything else
find_coprime_unit_first(n, seed) ==
    IF n = 1 THEN Returns(Big(1))
    ELSE IF seed # None
    THEN LET s == SeededSearch(n, seed)
         IN  IF s.raised THEN s
             ELSE IF s.found THEN Returns(s.val)
             ELSE Returns(UnseededCoprime(n))
    ELSE Returns(UnseededCoprime(n))

\* HRID._find_coprime
find_coprime(n, seed) ==
    IF seed # None
    THEN LET s == SeededSearch(n, seed)
         IN  IF s.raised THEN s
             ELSE IF s.found THEN Returns(s.val)
             ELSE Returns(UnseededCoprime(n))
    ELSE Returns(UnseededCoprime(n))

(***************************************************************************)
(* HRID.__init__.                                                          *)
(***************************************************************************)
\* word_lists or DEFAULT_WORD_LISTS
WordListsOf(p) ==
    IF p.word_lists.kind = "dict" /\ DOMAIN p.word_lists.map # {}
    THEN p.word_lists.map ELSE DEFAULT_WORD_LISTS

\* [self._transform_element(e) for e in (elements or self.DEFAULT_ELEMENTS)]
Resolve(p) ==
    LET given == IF Truthy(p.elements) THEN p.elements.items ELSE DEFAULT_ELEMENTS
    IN  [i \in 1..Len(given) |-> transform_element(WordListsOf(p), given[i])]

\* the constructor on arguments p, with OS entropy os: the instance, or what
\* it raises.  The multiplier and its inverse are computed whatever the
\* scramble flag says.
HRID(p, os) ==
    LET elements   == Resolve(p)
        space_size == Prod(elements)
        multiplier == find_coprime(space_size, p.scramble_seed)
        inverse    == mod_inverse(multiplier.val, space_size)
    IN  IF multiplier.raised THEN multiplier
        ELSE IF inverse.raised THEN inverse
        ELSE Returns([delimiter           |-> p.delimiter,
                      random              |-> Random(p.seed, os),
                      word_lists          |-> WordListsOf(p),
                      elements            |-> elements,
                      scramble            |-> p.scramble,
                      scramble_seed       |-> p.scramble_seed,
                      space_size          |-> space_size,
                      scramble_multiplier |-> multiplier.val,
                      scramble_inverse    |-> inverse.val])

(***************************************************************************)
(* HRID.encode, HRID.decode, HRID.generate.                                *)
(***************************************************************************)
\* the mixed-radix loop of encode walking the elements first to last
RECURSIVE EncodeParts_forward(_, _)
EncodeParts_forward(elems, n) ==
    IF elems = <<>> THEN <<>>
    ELSE <<elems[1][(n % Len(elems[1])) + 1]>>
            \o EncodeParts_forward(Tail(elems), n \div Len(elems[1]))

\* the mixed-radix loop of encode: the words of n, first element first
RECURSIVE EncodeParts(_, _)
EncodeParts(elems, n) ==
    IF elems = <<>> THEN <<>>
    ELSE LET words == elems[Len(elems)]
             base  == Len(words)
         IN  EncodeParts(SubSeq(elems, 1, Len(elems) - 1), n \div base)
                \o <<words[(n % base) + 1]>>

\* encode with the upper end of the range let in
encode_inclusive(self, n) ==
    IF ~(0 <= n /\ n <= self.space_size)
    THEN Raises("ValueError", "out of range")
    ELSE LET m == IF self.scramble
                  THEN (n * ModBig(self.scramble_multiplier, self.space_size)) % self.space_size
                  ELSE n
         IN  Returns(Join(self.delimiter, EncodeParts(self.elements, m)))

\* HRID.encode
encode(self, n) ==
    IF ~(0 <= n /\ n < self.space_size)
    THEN Raises("ValueError", "out of range")
    ELSE LET m == IF self.scramble
                  THEN (n * ModBig(self.scramble_multiplier, self.space_size)) % self.space_size
                  ELSE n
         IN  Returns(Join(self.delimiter, EncodeParts(self.elements, m)))

\* the mixed-radix loop of decode from position i with n so far
RECURSIVE DecodeParts(_, _, _, _)
DecodeParts(parts, elems, i, n) ==
    IF i > Len(parts) THEN Returns(n)
    ELSE LET idx == Index(elems[i], parts[i])
         IN  IF idx.raised THEN Raises("ValueError", "not found in word list")
             ELSE DecodeParts(parts, elems, i + 1, n * Len(elems[i]) + idx.val)

\* decode without the count of the parts: zip stops at the shorter
decode_uncounted(self, hrid) ==
    LET parts == Split(hrid, self.delimiter)
    IN  IF parts.raised THEN parts
        ELSE LET k == IF Len(parts.val) < Len(self.elements)
                      THEN Len(parts.val) ELSE Len(self.elements)
                 n == DecodeParts(SubSeq(parts.val, 1, k), self.elements, 1, 0)
             IN  IF n.raised THEN n
                 ELSE IF self.scramble
                 THEN Returns((n.val * self.scramble_inverse) % self.space_size)
                 ELSE n

\* HRID.decode
decode(self, hrid) ==
    LET parts == Split(hrid, self.delimiter)
    IN  IF parts.raised THEN parts
        ELSE IF Len(parts.val) # Len(self.elements)
        THEN Raises("ValueError", "wrong number of parts")
        ELSE LET n == DecodeParts(parts.val, self.elements, 1, 0)
             IN  IF n.raised THEN n
                 ELSE IF self.scramble
                 THEN Returns((n.val * self.scramble_inverse) % self.space_size)
                 ELSE n

\* self.random.choice(e) at the i-th draw from now
Choice(rng, e, i) == e[(RawAt(rng, i) % Len(e)) + 1]

\* generate: the identifier (one draw per element, in order)
generate(self) ==
    Returns(Join(self.delimiter,
                 [i \in 1..Len(self.elements) |-> Choice(self.random, self.elements[i], i)]))

\* generate reversing self._elements in place as it draws
generated_reversing(self) ==
    [self EXCEPT !.random = Advance(self.random, Len(self.elements)),
                 !.elements = [i \in 1..Len(self.elements) |->
                                  self.elements[Len(self.elements) - i + 1]]]

\* generate: the instance afterwards
generated(self) == [self EXCEPT !.random = Advance(self.random, Len(self.elements))]

(***************************************************************************)
(* The state machine.                                                      *)
(***************************************************************************)
Instances == {1, 2}

\* no call yet
NoCall == [op |-> "none", arg |-> 0, of |-> -1]

ParamSpace ==
    [delimiter     : Delimiters,
     elements      : ElementsArgs,
     seed          : {None} \cup GenSeeds,
     word_lists    : WordListsArgs,
     scramble      : BOOLEAN,
     scramble_seed : {None} \cup ScrambleSeeds]

\* the entropy of the two constructions: the same, or not
EntropyPairs == {<<"os0", "os0">>, <<"os0", "os1">>}

Init ==
    /\ params \in ParamSpace
    /\ entropy \in EntropyPairs
    /\ phase = "new"
    /\ h = [i \in Instances |-> None]
    /\ last = NoCall
    /\ out = [i \in Instances |-> None]

\* HRID(**params), twice
Construct ==
    /\ phase = "new"
    /\ LET r == [i \in Instances |-> HRID(params, entropy[i])]
       IN  /\ phase' = IF r[1].raised THEN "failed" ELSE "ready"
           /\ h' = [i \in Instances |-> IF r[i].raised THEN None ELSE r[i].val]
           /\ out' = [i \in Instances |-> IF r[i].raised THEN r[i] ELSE Returns(0)]
    /\ last' = [op |-> "init", arg |-> 0, of |-> -1]
    /\ UNCHANGED <<params, entropy>>

\* the caller has the result of the last call and may make the next one
Idle == phase = "ready" /\ last.op = "none"

\* the caller takes the result of the last call
TakeResult ==
    /\ phase = "ready"
    /\ last.op # "none"
    /\ last' = NoCall
    /\ out' = [i \in Instances |-> None]
    /\ UNCHANGED <<params, entropy, phase, h>>

\* the integers encode is called on: the range and RangeMargin on either side
EncodeArgs(self) == (0 - RangeMargin)..(self.space_size + RangeMargin - 1)

\* h.encode(n)
Encode(n) ==
    /\ Idle
    /\ out' = [i \in Instances |-> encode(h[i], n)]
    /\ last' = [op |-> "encode", arg |-> n, of |-> -1]
    /\ UNCHANGED <<params, entropy, phase, h>>

\* every identifier made of one word of each element
Identifiers(self) ==
    LET k      == Len(self.elements)
        words  == UNION {{self.elements[i][j] : j \in 1..Len(self.elements[i])} : i \in 1..k}
        tuples == {t \in [1..k -> words] :
                     \A i \in 1..k : \E j \in 1..Len(self.elements[i]) : t[i] = self.elements[i][j]}
    IN  {Join(self.delimiter, t) : t \in tuples}

\* the strings decode is called on: every identifier, and the identifier of
\* the first words with a part too many, with a part too few and with an
\* unknown word in each position, and the empty string
DecodeArgs(self) ==
    LET k       == Len(self.elements)
        first   == [i \in 1..k |-> self.elements[i][1]]
        unknown == <<"?">>
    IN  Identifiers(self)
        \cup {Join(self.delimiter, first \o <<unknown>>)}
        \cup {Join(self.delimiter, [first EXCEPT ![i] = unknown]) : i \in 1..k}
        \cup {Join(self.delimiter, SubSeq(first, 1, k - 1))}
        \cup {<<>>}

\* h.decode(s) on a string of the caller's
Decode(s) ==
    /\ Idle
    /\ out' = [i \in Instances |-> decode(h[i], s)]
    /\ last' = [op |-> "decode", arg |-> s, of |-> -1]
    /\ UNCHANGED <<params, entropy, phase, h>>

\* h.decode(h.encode(n)): decode on the identifier encode has just returned
DecodeEncoded ==
    /\ phase = "ready"
    /\ last.op = "encode"
    /\ ~out[1].raised
    /\ out' = [i \in Instances |-> decode(h[i], out[i].val)]
    /\ last' = [op |-> "decode", arg |-> out[1].val, of |-> last.arg]
    /\ UNCHANGED <<params, entropy, phase, h>>

\* h.generate()
Generate ==
    /\ Idle
    /\ out' = [i \in Instances |-> generate(h[i])]
    /\ h' = [i \in Instances |-> generated(h[i])]
    /\ last' = [op |-> "generate", arg |-> 0, of |-> -1]
    /\ UNCHANGED <<params, entropy, phase>>

Next ==
    \/ Construct
    \/ TakeResult
    \/ Idle /\ \E n \in EncodeArgs(h[1]) : Encode(n)
    \/ Idle /\ \E s \in DecodeArgs(h[1]) : Decode(s)
    \/ DecodeEncoded
    \/ Generate

Spec == Init /\ [][Next]_vars

(***************************************************************************)
(* Vocabulary of the properties.                                           *)
(***************************************************************************)
\* the last call was op, on a constructed instance
Called(op) == phase = "ready" /\ last.op = op

\* the symbols of a string
Symbols(str) == {str[k] : k \in 1..Len(str)}

\* the words of all the elements
AllWords(self) ==
    UNION {{self.elements[i][j] : j \in 1..Len(self.elements[i])} :
             i \in 1..Len(self.elements)}

\* the delimiter is not empty and no word holds a character of it
DelimiterFree(self) ==
    /\ self.delimiter # <<>>
    /\ \A w \in AllWords(self) : Symbols(w) \cap Symbols(self.delimiter) = {}

\* a and n have no common divisor but 1 (a as limbs, n >= 1)
NoCommonDivisor(a, n) == \A d \in 2..n : ~(ModBig(a, d) = 0 /\ n % d = 0)

\* the weight of position i: the product of the lengths of the later elements
Weight(elems, i) == Prod(SubSeq(elems, i + 1, Len(elems)))

\* the words of the plain mixed-radix digits of n, first element most significant
PlainWords(elems, n) ==
    [i \in 1..Len(elems) |-> elems[i][((n \div Weight(elems, i)) % Len(elems[i])) + 1]]

(***************************************************************************)
(* C1: round trip.                                                         *)
(***************************************************************************)
\* C1 as claimed: for every configuration and every n in [0, space_size),
\* decode(encode(n)) returns n.
C1_RoundTripAnyConfiguration ==
    (Called("decode") /\ last.of # -1) =>
        (~out[1].raised /\ out[1].val = last.of)

\* C1 amended: for every configuration with at least one element, a
\* non-empty delimiter and no word holding a character of the delimiter,
\* and every n in [0, space_size), decode(encode(n)) returns n.
C1_RoundTrip ==
    (Called("decode") /\ last.of # -1 /\ h[1].elements # <<>> /\ DelimiterFree(h[1])) =>
        (~out[1].raised /\ out[1].val = last.of)

\* a scrambled round trip of an n > 1 in a space of six identifiers or more
C1_Witness ==
    /\ Called("decode") /\ last.of > 1
    /\ h[1].elements # <<>> /\ DelimiterFree(h[1])
    /\ h[1].scramble /\ h[1].space_size >= 6
    /\ ModBig(h[1].scramble_multiplier, h[1].space_size) > 1
    /\ ~out[1].raised /\ out[1].val = last.of

(***************************************************************************)
(* C2: encode is one-to-one.                                               *)
(***************************************************************************)
\* C2 as claimed: for every configuration, no other n2 of the range encodes
\* to the identifier encode has returned for n1.
C2_BijectionAnyConfiguration ==
    (Called("encode") /\ ~out[1].raised) =>
        \A n2 \in 0..(h[1].space_size - 1) :
            n2 # last.arg => encode(h[1], n2).val # out[1].val

\* C2 amended: the same, for every configuration with a non-empty delimiter
\* and no word holding a character of the delimiter; the identifiers of the
\* range are then space_size distinct strings.
C2_Bijection ==
    (Called("encode") /\ ~out[1].raised /\ DelimiterFree(h[1])) =>
        /\ \A n2 \in 0..(h[1].space_size - 1) :
              n2 # last.arg => encode(h[1], n2).val # out[1].val
        /\ Cardinality({encode(h[1], n).val : n \in 0..(h[1].space_size - 1)})
              = h[1].space_size

\* a scrambled encode in a space whose size divides by 3, where the first
\* fixed multiplier is not coprime
C2_Witness ==
    /\ Called("encode") /\ ~out[1].raised /\ DelimiterFree(h[1])
    /\ h[1].scramble /\ h[1].scramble_seed = None
    /\ h[1].space_size = 6 /\ last.arg = 5

(***************************************************************************)
(* C3: range enforcement.                                                  *)
(***************************************************************************)
\* C3: encode(n) raises ValueError (out of range) and returns nothing for
\* every n < 0 and every n >= space_size, and returns an identifier for
\* every n in [0, space_size).
C3_RangeEnforcement ==
    Called("encode") =>
        \A i \in Instances :
            IF 0 <= last.arg /\ last.arg < h[i].space_size
            THEN ~out[i].raised /\ out[i].val \in Seq(STRING)
            ELSE out[i] = Raises("ValueError", "out of range")

\* encode(space_size) has raised, in a space of more than one identifier
C3_Witness ==
    /\ Called("encode") /\ h[1].space_size > 1
    /\ last.arg = h[1].space_size
    /\ out[1].raised /\ out[1].exc = "ValueError"

(***************************************************************************)
(* C4: format enforcement.                                                 *)
(***************************************************************************)
\* splitting s on a non-empty delimiter gives a number of parts other than
\* the number of elements, or a part that is not a word of its element
Malformed(self, s) ==
    /\ self.delimiter # <<>>
    /\ LET parts == SplitOn(s, self.delimiter)
       IN  \/ Len(parts) # Len(self.elements)
           \/ \E i \in 1..Len(parts) :
                \A j \in 1..Len(self.elements[i]) : self.elements[i][j] # parts[i]

\* C4 as claimed: decode(s) raises exactly when s has the wrong number of
\* parts or a part that is no word of its element, and returns an integer
\* in every other case.
C4_FormatErrorOnlyOnBadParts ==
    Called("decode") =>
        IF Malformed(h[1], last.arg)
        THEN out[1].raised /\ out[1].exc = "ValueError"
        ELSE ~out[1].raised /\ out[1].val \in Int

\* C4 amended: decode(s) raises ValueError and returns nothing when the
\* delimiter is empty (str.split refuses an empty separator), when s has the
\* wrong number of parts, or when a part is no word of its element; it
\* returns an integer in every other case.
C4_FormatEnforcement ==
    Called("decode") =>
        IF h[1].delimiter = <<>> \/ Malformed(h[1], last.arg)
        THEN out[1].raised /\ out[1].exc = "ValueError"
        ELSE ~out[1].raised /\ out[1].val \in Int

\* decode has refused an identifier of the right length for an unknown word
C4_Witness ==
    /\ Called("decode") /\ h[1].delimiter # <<>>
    /\ Len(h[1].elements) = 2
    /\ Len(SplitOn(last.arg, h[1].delimiter)) = 2
    /\ out[1] = Raises("ValueError", "not found in word list")

(***************************************************************************)
(* C5: degenerate constructions.                                           *)
(***************************************************************************)
\* some resolved element has no word
SomeEmptyList(p) == \E i \in 1..Len(Resolve(p)) : Resolve(p)[i] = <<>>

\* C5: construction fails, and yields no instance, whenever resolution
\* yields no element or an element with no word, with and without a scramble
\* seed and with scramble on or off.
C5_DegenerateConstructionFails ==
    (phase # "new" /\ (Resolve(params) = <<>> \/ SomeEmptyList(params))) =>
        /\ phase = "failed"
        /\ \A i \in Instances : h[i] = None /\ out[i].raised

(***************************************************************************)
(* C6: without scrambling, encode is the plain mixed-radix form.           *)
(***************************************************************************)
\* C6: with scramble off, encode(n) joins the words of the plain mixed-radix
\* digits of n (first element most significant), and decode returns the
\* integer whose digits are the parts it was given.
C6_PlainMixedRadix ==
    /\ (Called("encode") /\ ~h[1].scramble /\ ~out[1].raised) =>
          out[1].val = Join(h[1].delimiter, PlainWords(h[1].elements, last.arg))
    /\ (Called("decode") /\ ~h[1].scramble /\ ~out[1].raised) =>
          Join(h[1].delimiter, PlainWords(h[1].elements, out[1].val)) = last.arg

\* elements [a, b] and [x, y, z], delimiter "-", scramble off: encode(5) is "b-z"
C6_Witness ==
    /\ Called("encode") /\ ~h[1].scramble
    /\ h[1].delimiter = <<"-">>
    /\ h[1].elements = << << <<"a">>, <<"b">> >>, << <<"x">>, <<"y">>, <<"z">> >> >>
    /\ last.arg = 5
    /\ out[1] = Returns(<<"b", "-", "z">>)

(***************************************************************************)
(* C7: determinism.                                                        *)
(***************************************************************************)
\* C7 as claimed: two instances built with the same arguments hold the same
\* multiplier and inverse and answer every call alike, generate included.
C7_SameArgumentsSameResults ==
    phase = "ready" =>
        /\ h[1].scramble_multiplier = h[2].scramble_multiplier
        /\ h[1].scramble_inverse = h[2].scramble_inverse
        /\ last.op \in {"encode", "decode", "generate"} => out[1] = out[2]

\* C7 amended: two instances built with the same arguments hold the same
\* multiplier and inverse and answer every encode and decode alike; they
\* answer the k-th generate alike when seed is not None (with seed None each
\* generator is seeded from the OS entropy).
C7_Determinism ==
    phase = "ready" =>
        /\ h[1].scramble_multiplier = h[2].scramble_multiplier
        /\ h[1].scramble_inverse = h[2].scramble_inverse
        /\ last.op \in {"encode", "decode"} => out[1] = out[2]
        /\ params.seed # None =>
              /\ h[1].random = h[2].random
              /\ last.op = "generate" => out[1] = out[2]

\* a later generate of two seeded instances with a seeded multiplier, of
\* different OS entropy, whose first word is not the first of its list
C7_Witness ==
    /\ Called("generate") /\ params.seed # None /\ params.scramble_seed # None
    /\ entropy[1] # entropy[2]
    /\ h[1].space_size > 1 /\ h[1].random.pos # 1
    /\ out[1] = out[2]
    /\ out[1].val # generate([h[1] EXCEPT !.random = [stream |-> <<0>>, pos |-> 1]]).val

(***************************************************************************)
(* C8: the multiplier is coprime to the space size.                        *)
(***************************************************************************)
\* the largest n the fallback scan is tried on
ScanMax == 24

\* C8: construction over a space of one identifier or more ends with a
\* multiplier that has no common divisor with space_size, whichever branch
\* chose it; the fallback scan, which no space this small reaches, returns a
\* coprime of n for every n >= 1.
C8_CoprimeMultiplier ==
    /\ (phase # "new" /\ Prod(Resolve(params)) >= 1) => phase = "ready"
    /\ phase = "ready" =>
          \A i \in Instances : NoCommonDivisor(h[i].scramble_multiplier, h[i].space_size)
    /\ last.op = "init" =>
          \A n \in 1..ScanMax : NoCommonDivisor(FallbackScan(n), n)

\* a seeded search that spent its draws and fell through to the second
\* fixed multiplier
C8_Witness ==
    /\ phase = "ready" /\ last.op = "init"
    /\ h[1].scramble_seed # None /\ h[1].space_size = 6
    /\ h[1].scramble_multiplier = Candidates[2]

Constructed(i) == HRID(params, entropy[i]).val

\* C10: a call on a constructed instance leaves every field but the random
\* source as it was; encode and decode, returning or raising, leave the
\* random source too, and only generate moves it.
C10_Immutable ==
    [][phase = "ready" =>
        /\ \A i \in Instances : [h'[i] EXCEPT !.random = h[i].random] = h[i]
        /\ last'.op # "generate" => h' = h
        /\ phase' = "ready" /\ params' = params]_vars

\* after generate the random source has moved and every other field is as
\* constructed
C10_Witness ==
    /\ Called("generate")
    /\ h[1].random # Constructed(1).random
    /\ [h[1] EXCEPT !.random = Constructed(1).random] = Constructed(1)
    /\ h[1].space_size > 1

=============================================================================
